---- MODULE Spec2Model ----
(***************************************************************************)
(* Model of src/devices/chinese_temperature_humidity_sensor.c: the decoder *)
(* callback noname_chinese_callback of the "Noname chinese outdoor         *)
(* temperature & humidity sensor" device.  One invocation of the callback  *)
(* is a run of the actions Call .. OutputData below; every action is one   *)
(* block of the function, ending at the next return statement.             *)
(***************************************************************************)
EXTENDS Integers, Sequences, FiniteSets, TLC

VARIABLES
    bitbuffer,      \* the bitbuffer_t handed to the callback: a sequence of rows
    verbose,        \* decoder->verbose
    pc,             \* position inside noname_chinese_callback
    r,              \* int r: row index returned by bitbuffer_find_repeated_row
    b,              \* uint8_t b[6]
    checksum,       \* uint8_t checksum
    checksum_recv,  \* uint8_t checksum_recv
    id,             \* int id
    channel,        \* int channel
    temp_raw,       \* int temp_raw
    temp_f,         \* float temp_f (an IEEE-754 binary32 value)
    humidity,       \* int humidity
    battery_low,    \* int battery_low
    ret,            \* the value returned by the current invocation
    output,         \* the data_t records passed to decoder_output_data by this invocation
    stderr,         \* the diagnostics written by this invocation
    path,           \* the blocks of the function this invocation has executed
    rel,            \* how this invocation's input relates to the previous one's
    prev            \* the previous invocation's input frame and outcome

vars == <<bitbuffer, verbose, pc, r, b, checksum, checksum_recv, id, channel,
          temp_raw, temp_f, humidity, battery_low, ret, output, stderr, path,
          rel, prev>>

-----------------------------------------------------------------------------
(* Bounds of the model. *)

\* decoder->verbose ranges over 0..MaxVerbose
MaxVerbose == 2

\* the largest number of rows of a bitbuffer
MaxRows == 5

\* the input frames differ from the example frame in at most MaxVaried fields
MaxVaried == 2

-----------------------------------------------------------------------------
(* Return codes of a decoder callback. *)

DECODE_ABORT_LENGTH == -1

DECODE_FAIL_MIC == -3

DECODE_FAIL_SANITY == -4

-----------------------------------------------------------------------------
(* Bytes and bits. *)

\* (x & 0xf0) >> 4
HiNibble(x) == (x \div 16) % 16

\* x & 0x0f
LoNibble(x) == x % 16

\* bit i (0 = most significant bit of byte 0) of a 6-byte frame
FrameBit(f, i) == (f[(i \div 8) + 1] \div (2 ^ (7 - (i % 8)))) % 2

\* the frame f with bit i inverted
FlipBit(f, i) ==
    LET k == (i \div 8) + 1
        w == 2 ^ (7 - (i % 8))
    IN  [f EXCEPT ![k] = IF FrameBit(f, i) = 1 THEN f[k] - w ELSE f[k] + w]

\* the frame f with the low 6 bits of byte 5 replaced by p
SetPad(f, p) == [f EXCEPT ![6] = (f[6] \div 64) * 64 + p]

\* the first 42 bits of a frame
Bits42(f) == SetPad(f, 0)

-----------------------------------------------------------------------------
(* IEEE-754 binary32 arithmetic, as far as the callback uses it.  A float   *)
(* is [neg, m, e], standing for (-1)^neg * m * 2^(-e), with m < 2^24 + 1.   *)

RECURSIVE BitLen(_)
BitLen(n) == IF n = 0 THEN 0 ELSE 1 + BitLen(n \div 2)

Abs(n) == IF n < 0 THEN -n ELSE n

\* The float product n * 0.1f for an int n, |n| < 4096.  0.1f is
\* 13421773 * 2^-27 = (3276 * 4096 + 3277) * 2^-27; the exact product is kept
\* as hi * 4096 + lo and rounded to 24 significant bits, ties to even.
MulTenth(n) ==
    LET a   == Abs(n)
        lo0 == a * 3277
        hi  == a * 3276 + (lo0 \div 4096)
        lo  == lo0 % 4096
        d   == IF hi < 4096 THEN 0 ELSE BitLen(hi) - 12
        m0  == hi * (2 ^ (12 - d)) + (lo \div (2 ^ d))
        rem == lo % (2 ^ d)
        up  == d > 0 /\ (rem * 2 > 2 ^ d \/ (rem * 2 = 2 ^ d /\ m0 % 2 = 1))
    IN  [neg |-> n < 0, m |-> IF up THEN m0 + 1 ELSE m0, e |-> 27 - d]

\* |f| > k for an integer k >= 0
MagGreater(f, k) ==
    LET ip == f.m \div (2 ^ f.e)
    IN  ip > k \/ (ip = k /\ f.m % (2 ^ f.e) # 0)

\* f > k for the float f and an int k >= 0 (k is exact as a float)
FloatGreater(f, k) == ~f.neg /\ MagGreater(f, k)

\* f < -k for the float f and an int k >= 0
FloatLessNeg(f, k) == f.neg /\ MagGreater(f, k)

\* the number printed by "%.01f", in tenths: round(f * 10), ties to even
FormatTenths(f) ==
    LET q   == 10 * f.m
        t   == q \div (2 ^ f.e)
        rem == q % (2 ^ f.e)
        up  == rem * 2 > 2 ^ f.e \/ (rem * 2 = 2 ^ f.e /\ t % 2 = 1)
        mag == IF up THEN t + 1 ELSE t
    IN  IF f.neg THEN -mag ELSE mag

FloatZero == [neg |-> FALSE, m |-> 0, e |-> 27]

-----------------------------------------------------------------------------
(* The bitbuffer and the two bitbuffer functions the callback calls.  A    *)
(* bitbuffer is a sequence of rows; row i of the code is element i + 1.     *)

Row(n, f) == [bits_per_row |-> n, bb |-> f]

\* the number of rows equal to row i (same length, same bits)
CountRepeats(bits, i) == Cardinality({j \in 1..Len(bits) : bits[j] = bits[i]})

\* the index (from 0) of the first row of at least min_bits bits that occurs
\* at least min_repeats times, or -1
bitbuffer_find_repeated_row(bits, min_repeats, min_bits) ==
    LET found == {i \in 1..Len(bits) :
                     /\ bits[i].bits_per_row >= min_bits
                     /\ CountRepeats(bits, i) >= min_repeats}
    IN  IF found = {} THEN -1
        ELSE (CHOOSE i \in found : \A j \in found : i <= j) - 1

\* the bytes holding the first 42 bits of row `row`
bitbuffer_extract_bytes(bits, row) == bits[row + 1].bb

-----------------------------------------------------------------------------
(* The computations of noname_chinese_callback. *)

\* mutant: the length of the found row is not checked
LengthAbortMutant(bits, row) == row < 0

\* r < 0 || bitbuffer->bits_per_row[r] != 42
LengthAbort(bits, row) == row < 0 \/ bits[row + 1].bits_per_row # 42

\* mutant: the test also looks at b[4]
AllZeroMutant(bb) == bb[1] = 0 /\ bb[2] = 0 /\ bb[3] = 0 /\ bb[4] = 0 /\ bb[5] = 0

\* !b[0] && !b[1] && !b[2] && !b[3]
AllZero(bb) == bb[1] = 0 /\ bb[2] = 0 /\ bb[3] = 0 /\ bb[4] = 0

\* the loop over b[0..3]: two additions into the uint8_t checksum per byte
RECURSIVE ChecksumLoop(_, _, _)
ChecksumLoop(bb, i, acc) ==
    IF i >= 4 THEN acc
    ELSE ChecksumLoop(bb, i + 1,
             (((acc + HiNibble(bb[i + 1])) % 256) + LoNibble(bb[i + 1])) % 256)

\* mutant: the high nibble of b[4] is left out of the sum
SumNibblesMutant(bb) == ChecksumLoop(bb, 0, 0)

\* the loop, then checksum += (b[4] & 0xf0) >> 4
SumNibbles(bb) == (ChecksumLoop(bb, 0, 0) + HiNibble(bb[5])) % 256

\* mutant: checksum &= 0x07
MaskChecksumMutant(c) == c % 8

\* checksum &= 0x3f
MaskChecksum(c) == c % 64

\* mutant: ((b[4] & 0x0f) << 2) + (b[5] >> 5), reading a padding bit
ComputeChecksumRecvMutant(bb) == (LoNibble(bb[5]) * 4 + (bb[6] \div 32)) % 256

\* ((b[4] & 0x0f) << 2) + ((b[5] & 0xc0) >> 6), stored in a uint8_t
ComputeChecksumRecv(bb) == (LoNibble(bb[5]) * 4 + ((bb[6] \div 64) % 4)) % 256

\* mutant: the channel without the + 1
ChannelMutant(bb) == (bb[2] \div 16) % 4

\* ((b[1] & 0x30) >> 4) + 1
Channel(bb) == ((bb[2] \div 16) % 4) + 1

\* ((b[1] & 0x0f) << 8) | (b[2] & 0xff)
TempRaw(bb) == LoNibble(bb[2]) * 256 + (bb[3] % 256)

\* temp_raw * 0.1f, or (temp_raw - 4096) * 0.1f when temp_raw & 0x800
TempF(traw) ==
    IF (traw \div 2048) % 2 = 1 THEN MulTenth(traw - 4096) ELSE MulTenth(traw)

\* b[3] >> 1
Humidity(bb) == bb[4] \div 2

\* (b[4] & 0x10) >> 4
BatteryLow(bb) == (bb[5] \div 16) % 2

\* mutant: temp_f >= 200 || temp_f <= -50
TemperatureInvalidMutant(tf) ==
    \/ (~tf.neg /\ tf.m \div (2 ^ tf.e) >= 200)
    \/ (tf.neg /\ tf.m \div (2 ^ tf.e) >= 50)

\* temp_f > 200 || temp_f < -50
TemperatureInvalid(tf) == FloatGreater(tf, 200) \/ FloatLessNeg(tf, 50)

\* mutant: humidity > 101
HumidityInvalidMutant(h) == h > 101

\* humidity > 100
HumidityInvalid(h) == h > 100

\* the record built by data_make
DataMake(i, c, bl, tf, h) ==
    [model         |-> "Noname chinese outdoor temperature & humidity sensor",
     id            |-> i,
     channel       |-> c,
     battery       |-> IF bl # 0 THEN "LOW" ELSE "OK",
     temperature_C |-> tf,
     humidity      |-> h,
     mic           |-> "CHECKSUM"]

\* fprintf(stderr, ...) under if (decoder->verbose > 1)
Log(v, log, msg) == IF v > 1 THEN Append(log, msg) ELSE log

-----------------------------------------------------------------------------
(* The inputs of the model. *)

\* the frame of the file header's example data: 0e 20 cd 80 0c 40
ExampleFrame == <<14, 32, 205, 128, 12, 64>>

ZeroFrame == <<0, 0, 0, 0, 0, 0>>

\* the frame with sensor id b0, high nibble n1 of byte 1, temperature field t,
\* humidity byte b3, high nibble n4 of byte 4, checksum field x, padding p
Frame(b0, n1, t, b3, n4, x, p) ==
    <<b0, n1 * 16 + (t \div 256), t % 256, b3, n4 * 16 + (x \div 4),
      (x % 4) * 64 + p>>

IdSet == {0, 14, 255}

Nibble1Set == {0, 2, 15}

TempSet == {0, 205, 2000, 2001, 3595, 3596, 4005, 4095}

Byte3Set == {0, 128, 201, 202, 255}

Nibble4Set == {0, 1, 15}

PadSet == {0, 63}

\* the fields of the example frame
ExampleData == <<14, 2, 205, 128, 0>>

\* the number of fields in which d differs from the example frame
Varied(d) == Cardinality({k \in 1..5 : d[k] # ExampleData[k]})

\* zero-prefixed frames, a one-bit frame and the frame of the largest nibble sum
ExtraData == {<<0, 0, 0, 0, 0>>, <<0, 0, 0, 0, 15>>, <<0, 0, 0, 128, 0>>,
              <<255, 15, 4095, 255, 15>>}

DataSet ==
    {d \in IdSet \X Nibble1Set \X TempSet \X Byte3Set \X Nibble4Set :
        Varied(d) <= MaxVaried} \cup ExtraData

\* every data tuple with every value of the 6-bit checksum field
Frames == {Frame(d[1], d[2], d[3], d[4], d[5], x, 0) : d \in DataSet, x \in 0..63}

\* a bitbuffer of MaxRows repeats of the 42-bit frame f
Repeated(f) == [i \in 1..MaxRows |-> Row(42, f)]

\* bitbuffers of up to MaxRows rows of 41, 42 or 43 bits
MixedRows == {Row(42, ExampleFrame), Row(43, ExampleFrame),
              Row(41, ExampleFrame), Row(42, ZeroFrame)}

MixedBuffers == UNION {[1..n -> MixedRows] : n \in 0..MaxRows}

BitBuffers == {Repeated(f) : f \in Frames} \cup MixedBuffers

\* decoding one frame and then another: the frames of the two-call runs
PairFrames ==
    {Frame(14, 2, 205, 128, 0, 49, 0),     \* the example frame
     Frame(14, 2, 205, 128, 0, 48, 0),     \* its checksum field off by one
     ZeroFrame,
     Frame(14, 2, 2001, 128, 0, 45, 0),    \* 200.1 C, checksum 45
     Frame(14, 2, 205, 202, 0, 63, 0),     \* 101 %, checksum 63
     Frame(14, 2, 2001, 202, 1, 60, 0)}    \* 200.1 C and 101 %, checksum 60

NoPrev == [b |-> ZeroFrame, ret |-> 0, output |-> <<>>, reason |-> "none"]

-----------------------------------------------------------------------------
(* The state machine. *)

\* the block of the function that returned
Reason == IF path = <<>> THEN "none" ELSE path[Len(path)]

\* what the caller holds of the invocation that has just returned
Outcome == [b |-> Bits42(b), ret |-> ret, output |-> output, reason |-> Reason]

Init ==
    /\ bitbuffer = <<>>
    /\ verbose = 0
    /\ pc = "idle"
    /\ r = 0
    /\ b = ZeroFrame
    /\ checksum = 0
    /\ checksum_recv = 0
    /\ id = 0
    /\ channel = 0
    /\ temp_raw = 0
    /\ temp_f = FloatZero
    /\ humidity = 0
    /\ battery_low = 0
    /\ ret = 0
    /\ output = <<>>
    /\ stderr = <<>>
    /\ path = <<>>
    /\ rel = "none"
    /\ prev = NoPrev

\* entry of noname_chinese_callback(decoder, bitbuffer): a new stack frame
Enter(bits, v) ==
    /\ bitbuffer' = bits
    /\ verbose' = v
    /\ pc' = "find"
    /\ r' = 0
    /\ b' = ZeroFrame
    /\ checksum' = 0
    /\ checksum_recv' = 0
    /\ id' = 0
    /\ channel' = 0
    /\ temp_raw' = 0
    /\ temp_f' = FloatZero
    /\ humidity' = 0
    /\ battery_low' = 0
    /\ ret' = 0
    /\ output' = <<>>
    /\ stderr' = <<>>
    /\ path' = <<>>

\* return x
Return(x) == ret' = x /\ pc' = "done"

\* the callback is called on a newly received bitbuffer
Call ==
    /\ pc = "idle"
    /\ \E bits \in BitBuffers, v \in 0..MaxVerbose : Enter(bits, v)
    /\ rel' = "fresh"
    /\ prev' = NoPrev

\* the callback is called again on the same 42 bits per row, with other
\* padding bits and another verbose level
CallAgain ==
    /\ pc = "done"
    /\ rel \in {"fresh", "same42"}
    /\ \E p \in PadSet, v \in 0..MaxVerbose :
          /\ v # verbose
          /\ \A i \in 1..Len(bitbuffer) : bitbuffer[i].bb[6] % 64 # p
          /\ Enter([i \in 1..Len(bitbuffer) |->
                       [bitbuffer[i] EXCEPT !.bb = SetPad(@, p)]], v)
    /\ rel' = "same42"
    /\ prev' = Outcome

\* the callback is called on a frame that decoded, with one of its 42 bits
\* inverted
CallFlipped ==
    /\ pc = "done"
    /\ ret = 1
    /\ \E i \in 0..41 : Enter(Repeated(FlipBit(b, i)), verbose)
    /\ rel' = "flip"
    /\ prev' = Outcome

\* the caller takes the returned value and waits for the next bitbuffer;
\* nothing of the invocation remains
Idle ==
    /\ pc = "done"
    /\ bitbuffer' = <<>>
    /\ verbose' = 0
    /\ pc' = "idle"
    /\ r' = 0
    /\ b' = ZeroFrame
    /\ checksum' = 0
    /\ checksum_recv' = 0
    /\ id' = 0
    /\ channel' = 0
    /\ temp_raw' = 0
    /\ temp_f' = FloatZero
    /\ humidity' = 0
    /\ battery_low' = 0
    /\ ret' = 0
    /\ output' = <<>>
    /\ stderr' = <<>>
    /\ path' = <<>>
    /\ rel' = "none"
    /\ prev' = NoPrev

\* lines 63-65
FindRepeatedRow ==
    /\ pc = "find"
    /\ LET row == bitbuffer_find_repeated_row(bitbuffer, 4, 42)
       IN  /\ r' = row
           /\ IF LengthAbort(bitbuffer, row)
              THEN Return(DECODE_ABORT_LENGTH)
              ELSE pc' = "extract" /\ ret' = ret
    /\ path' = Append(path, "find")
    /\ UNCHANGED <<bitbuffer, verbose, b, checksum, checksum_recv, id, channel,
                   temp_raw, temp_f, humidity, battery_low, output, stderr,
                   rel, prev>>

\* line 67
ExtractBytes ==
    /\ pc = "extract"
    /\ b' = bitbuffer_extract_bytes(bitbuffer, r)
    /\ pc' = "zero"
    /\ path' = Append(path, "extract")
    /\ UNCHANGED <<bitbuffer, verbose, r, checksum, checksum_recv, id, channel,
                   temp_raw, temp_f, humidity, battery_low, ret, output, stderr,
                   rel, prev>>

\* lines 71-76
SanityAllZero ==
    /\ pc = "zero"
    /\ IF AllZero(b)
       THEN /\ stderr' = Log(verbose, stderr, <<"data all 0x00">>)
            /\ Return(DECODE_FAIL_SANITY)
       ELSE /\ pc' = "sum"
            /\ UNCHANGED <<stderr, ret>>
    /\ path' = Append(path, "zero")
    /\ UNCHANGED <<bitbuffer, verbose, r, b, checksum, checksum_recv, id,
                   channel, temp_raw, temp_f, humidity, battery_low, output,
                   rel, prev>>

\* lines 78-87
ChecksumSum ==
    /\ pc = "sum"
    /\ stderr' = Log(verbose, stderr, <<"hex input", b>>)
    /\ checksum' = SumNibbles(b)
    /\ pc' = "mask"
    /\ path' = Append(path, "sum")
    /\ UNCHANGED <<bitbuffer, verbose, r, b, checksum_recv, id, channel,
                   temp_raw, temp_f, humidity, battery_low, ret, output, rel,
                   prev>>

\* lines 88-94
ChecksumMask ==
    /\ pc = "mask"
    /\ checksum' = MaskChecksum(checksum)
    /\ checksum_recv' = ComputeChecksumRecv(b)
    /\ stderr' = Log(verbose, stderr, <<"checksum", checksum', checksum_recv'>>)
    /\ pc' = "mic"
    /\ path' = Append(path, "mask")
    /\ UNCHANGED <<bitbuffer, verbose, r, b, id, channel, temp_raw, temp_f,
                   humidity, battery_low, ret, output, rel, prev>>

\* mutant: a checksum mismatch returns DECODE_FAIL_SANITY
CheckMicMutant ==
    /\ pc = "mic"
    /\ IF checksum # checksum_recv
       THEN /\ stderr' = Log(verbose, stderr, <<"checksum mismatch">>)
            /\ Return(DECODE_FAIL_SANITY)
       ELSE /\ pc' = "fields"
            /\ UNCHANGED <<stderr, ret>>
    /\ path' = Append(path, "mic")
    /\ UNCHANGED <<bitbuffer, verbose, r, b, checksum, checksum_recv, id,
                   channel, temp_raw, temp_f, humidity, battery_low, output,
                   rel, prev>>

\* lines 96-101
CheckMic ==
    /\ pc = "mic"
    /\ IF checksum # checksum_recv
       THEN /\ stderr' = Log(verbose, stderr, <<"checksum mismatch">>)
            /\ Return(DECODE_FAIL_MIC)
       ELSE /\ pc' = "fields"
            /\ UNCHANGED <<stderr, ret>>
    /\ path' = Append(path, "mic")
    /\ UNCHANGED <<bitbuffer, verbose, r, b, checksum, checksum_recv, id,
                   channel, temp_raw, temp_f, humidity, battery_low, output,
                   rel, prev>>

\* lines 103-113
ExtractFields ==
    /\ pc = "fields"
    /\ id' = b[1]
    /\ channel' = Channel(b)
    /\ temp_raw' = TempRaw(b)
    /\ temp_f' = TempF(TempRaw(b))
    /\ humidity' = Humidity(b)
    /\ battery_low' = BatteryLow(b)
    /\ pc' = "temp"
    /\ path' = Append(path, "fields")
    /\ UNCHANGED <<bitbuffer, verbose, r, b, checksum, checksum_recv, ret,
                   output, stderr, rel, prev>>

\* mutant: the temperature check logs but does not return
CheckTemperatureMutant ==
    /\ pc = "temp"
    /\ stderr' = IF TemperatureInvalid(temp_f)
                 THEN Log(verbose, stderr, <<"invalid temperature", temp_f>>)
                 ELSE stderr
    /\ pc' = "hum"
    /\ path' = Append(path, "temp")
    /\ UNCHANGED <<bitbuffer, verbose, r, b, checksum, checksum_recv, id,
                   channel, temp_raw, temp_f, humidity, battery_low, ret,
                   output, rel, prev>>

\* lines 116-121
CheckTemperature ==
    /\ pc = "temp"
    /\ IF TemperatureInvalid(temp_f)
       THEN /\ stderr' = Log(verbose, stderr, <<"invalid temperature", temp_f>>)
            /\ Return(DECODE_FAIL_SANITY)
       ELSE /\ pc' = "hum"
            /\ UNCHANGED <<stderr, ret>>
    /\ path' = Append(path, "temp")
    /\ UNCHANGED <<bitbuffer, verbose, r, b, checksum, checksum_recv, id,
                   channel, temp_raw, temp_f, humidity, battery_low, output,
                   rel, prev>>

\* lines 124-129
CheckHumidity ==
    /\ pc = "hum"
    /\ IF HumidityInvalid(humidity)
       THEN /\ stderr' = Log(verbose, stderr, <<"invalid humidity", humidity>>)
            /\ Return(DECODE_FAIL_SANITY)
       ELSE /\ pc' = "output"
            /\ UNCHANGED <<stderr, ret>>
    /\ path' = Append(path, "hum")
    /\ UNCHANGED <<bitbuffer, verbose, r, b, checksum, checksum_recv, id,
                   channel, temp_raw, temp_f, humidity, battery_low, output,
                   rel, prev>>

\* lines 132-144
OutputData ==
    /\ pc = "output"
    /\ output' = Append(output,
                        DataMake(id, channel, battery_low, temp_f, humidity))
    /\ Return(1)
    /\ path' = Append(path, "output")
    /\ UNCHANGED <<bitbuffer, verbose, r, b, checksum, checksum_recv, id,
                   channel, temp_raw, temp_f, humidity, battery_low, stderr,
                   rel, prev>>

\* one invocation, from after its entry to its return
Callback ==
    \/ FindRepeatedRow
    \/ ExtractBytes
    \/ SanityAllZero
    \/ ChecksumSum
    \/ ChecksumMask
    \/ CheckMic
    \/ ExtractFields
    \/ CheckTemperature
    \/ CheckHumidity
    \/ OutputData

Next ==
    \/ Call
    \/ CallAgain
    \/ CallFlipped
    \/ Idle
    \/ Callback

Spec == Init /\ [][Next]_vars

-----------------------------------------------------------------------------
(* Runs of two invocations on two frames, the caller keeping the outcome of *)
(* the first.                                                              *)

CallFirst ==
    /\ pc = "idle"
    /\ \E f \in PairFrames, v \in 0..MaxVerbose : Enter(Repeated(f), v)
    /\ rel' = "fresh"
    /\ prev' = NoPrev

CallNext ==
    /\ pc = "done"
    /\ rel = "fresh"
    /\ \E f \in PairFrames : Enter(Repeated(f), verbose)
    /\ rel' = "next"
    /\ prev' = Outcome

NextPair ==
    \/ CallFirst
    \/ CallNext
    \/ Callback

SpecPair == Init /\ [][NextPair]_vars

-----------------------------------------------------------------------------
(* The claims.  The reference computations below are written from the      *)
(* statements of the claims, over the bytes of a frame f = <<byte0, ...,    *)
(* byte5>>.                                                                 *)

Done == pc = "done"

\* the blocks executed so far by this invocation
Did(block) == \E k \in 1..Len(path) : path[k] = block

RefAllZero(f) == \A k \in 1..4 : f[k] = 0

\* the eight nibbles of bytes 0..3 plus the high nibble of byte 4
RefNibbleSum(f) ==
    (f[1] \div 16) + (f[1] % 16) + (f[2] \div 16) + (f[2] % 16) +
    (f[3] \div 16) + (f[3] % 16) + (f[4] \div 16) + (f[4] % 16) + (f[5] \div 16)

RefChecksumRecv(f) == (f[5] % 16) * 4 + (f[6] \div 64)

RefChecksumOk(f) == RefNibbleSum(f) % 64 = RefChecksumRecv(f)

RefChannel(f) == ((f[2] \div 16) % 4) + 1

RefTempRaw(f) == (f[2] % 16) * 256 + f[3]

\* the temperature in tenths of a degree
RefTenths(f) ==
    IF RefTempRaw(f) < 2048 THEN RefTempRaw(f) ELSE RefTempRaw(f) - 4096

RefHumidity(f) == f[4] \div 2

RefBattery(f) == IF (f[5] \div 16) % 2 = 1 THEN "LOW" ELSE "OK"

\* the row the claim C8 speaks of: 42 bits long and present at least 4 times
RefRepeated42(bits, i) ==
    /\ bits[i].bits_per_row = 42
    /\ Cardinality({j \in 1..Len(bits) : bits[j] = bits[i]}) >= 4

\* C1: a Reading is emitted (decoder_output_data called once, 1 returned)
\* only for a frame whose bytes 0..3 are not all zero, whose checksum
\* matches, whose temperature is neither > 200 nor < -50 and whose humidity
\* is <= 100; an emitted Reading has channel in 1..4, humidity in 0..100 and
\* id in 0..255; on every failing path nothing is emitted.
C1_ReadingOnlyIfValid ==
    /\ output # <<>> =>
          /\ Done /\ ret = 1 /\ Len(output) = 1
          /\ ~RefAllZero(b)
          /\ RefChecksumOk(b)
          /\ RefTenths(b) <= 2000 /\ RefTenths(b) >= -500
          /\ RefHumidity(b) <= 100
          /\ output[1].channel \in 1..4
          /\ output[1].humidity \in 0..100
          /\ output[1].id \in 0..255
    /\ Done /\ ret # 1 => output = <<>>
    /\ Done /\ ret = 1 => output # <<>>

C1_Witness ==
    /\ Done /\ ret = 1 /\ Len(output) = 1
    /\ output[1].humidity = 100 /\ output[1].channel = 4

\* C2: the fields of an emitted Reading equal the reference extraction
\* (temperature as printed with one decimal); the example frame decodes with
\* channel 3, 20.5 C and 64 %; temp_raw = 0xfa5 gives -9.1 C.
C2_FieldsAsReference ==
    /\ Done /\ ret = 1 =>
          /\ output[1].id = b[1]
          /\ output[1].channel = RefChannel(b)
          /\ FormatTenths(output[1].temperature_C) = RefTenths(b)
          /\ output[1].humidity = RefHumidity(b)
          /\ output[1].battery = RefBattery(b)
    /\ Done /\ Did("extract") /\ Bits42(b) = Bits42(ExampleFrame) =>
          /\ ret = 1
          /\ output[1].channel = 3
          /\ FormatTenths(output[1].temperature_C) = 205
          /\ output[1].humidity = 64
    /\ Did("fields") /\ RefTempRaw(b) = 4005 => FormatTenths(temp_f) = -91

C2_Witness ==
    /\ Done /\ ret = 1
    /\ RefTempRaw(b) = 4005 /\ output[1].battery = "LOW" /\ output[1].channel = 3

\* C3: for a frame whose bytes 0..3 are not all zero the computed checksum
\* is the nibble sum mod 64, the accumulator never exceeding 135, the
\* received checksum is ((byte4 & 0x0f) << 2) | (byte5 >> 6), and
\* DECODE_FAIL_MIC is returned exactly when the two differ.
C3_ChecksumAsReference ==
    /\ pc = "mask" => checksum = RefNibbleSum(b) /\ checksum <= 135
    /\ Did("mask") =>
          /\ checksum = RefNibbleSum(b) % 64
          /\ checksum_recv = RefChecksumRecv(b)
    /\ Done /\ Did("zero") /\ ~RefAllZero(b) =>
          (ret = DECODE_FAIL_MIC <=> ~RefChecksumOk(b))

C3_Witness ==
    /\ Done /\ ret = DECODE_FAIL_MIC
    /\ RefNibbleSum(b) = 135 /\ checksum = 7

\* C4: a frame whose bytes 0..3 are all zero returns DECODE_FAIL_SANITY from
\* the all-zero test whatever bytes 4 and 5 are, without the checksum being
\* computed, never DECODE_FAIL_MIC, and emits nothing.
C4_AllZeroBeforeChecksum ==
    Did("zero") /\ RefAllZero(b) =>
        /\ Done
        /\ ret = DECODE_FAIL_SANITY /\ ret # DECODE_FAIL_MIC
        /\ Reason = "zero"
        /\ ~Did("sum") /\ ~Did("mask") /\ ~Did("mic")
        /\ output = <<>>

\* the all-zero prefix with a checksum field that does not match
C4_Witness ==
    /\ Done /\ Did("zero") /\ RefAllZero(b)
    /\ b[5] = 240 /\ ~RefChecksumOk(b)

\* C5 as stated: a checksum-valid frame of exactly 200.0 C or exactly
\* -50.0 C is rejected with the range failure DECODE_FAIL_SANITY and emits
\* nothing.
C5_Original ==
    Done /\ Did("temp") /\ RefTenths(b) \in {2000, -500} =>
        /\ ret = DECODE_FAIL_SANITY
        /\ output = <<>>

\* C5 amended: a checksum-valid frame of exactly 200.0 C or exactly -50.0 C
\* passes the temperature check and is emitted when its humidity is <= 100;
\* the temperature check rejects exactly the frames above 200.0 C or below
\* -50.0 C.
C5_BoundsInclusive ==
    Done /\ Did("temp") =>
        /\ RefTenths(b) \in {2000, -500} =>
              /\ Did("hum")
              /\ RefHumidity(b) <= 100 =>
                    /\ ret = 1
                    /\ FormatTenths(output[1].temperature_C) = RefTenths(b)
        /\ (RefTenths(b) > 2000 \/ RefTenths(b) < -500) <=>
              (ret = DECODE_FAIL_SANITY /\ Reason = "temp")
        /\ Reason = "temp" => output = <<>>

C5_Witness ==
    /\ Done /\ ret = 1 /\ output # <<>>
    /\ RefTempRaw(b) = 3596

\* the classes of outcome the returned value tells apart
RefClass(reason) ==
    IF reason \in {"zero", "temp", "hum"} THEN "sanity" ELSE reason

\* C6 as stated: two invocations that end for different reasons (all-zero,
\* checksum mismatch, temperature, humidity, success) return different
\* values.
C6_Original ==
    Done /\ rel = "next" /\ prev.reason # Reason => prev.ret # ret

\* C6 amended: the returned value tells success, checksum mismatch and
\* sanity failure apart; the all-zero, temperature and humidity failures
\* all return DECODE_FAIL_SANITY.
C6_ClassesDistinguished ==
    /\ Done /\ rel = "next" =>
          (prev.ret = ret <=> RefClass(prev.reason) = RefClass(Reason))
    /\ Done /\ Reason \in {"zero", "temp", "hum"} => ret = DECODE_FAIL_SANITY
    /\ Done /\ Reason = "mic" => ret = DECODE_FAIL_MIC
    /\ Done /\ Reason = "output" => ret = 1

C6_Witness ==
    /\ Done /\ rel = "next"
    /\ prev.reason = "zero" /\ Reason = "hum" /\ prev.ret = ret

\* C7: an invocation on the same first 42 bits, with other padding bits in
\* byte 5 and another verbose level, after any number of invocations,
\* returns the same value and emits the same fields.
C7_SameBitsSameOutcome ==
    Done /\ rel = "same42" =>
        /\ Bits42(b) = prev.b
        /\ ret = prev.ret
        /\ output = prev.output

C7_Witness ==
    /\ Done /\ rel = "same42"
    /\ ret = 1 /\ b[6] % 64 = 63 /\ verbose = MaxVerbose /\ stderr # <<>>

\* C8: extraction and the checks are reached only when a row of exactly 42
\* bits found at least 4 times was returned; when the returned index is
\* negative or the row is not 42 bits long, DECODE_ABORT_LENGTH is returned
\* with no check run and nothing emitted.
C8_LengthGate ==
    /\ Did("extract") =>
          /\ r >= 0
          /\ RefRepeated42(bitbuffer, r + 1)
    /\ Did("find") /\ (r < 0 \/ bitbuffer[r + 1].bits_per_row # 42) =>
          /\ Done
          /\ ret = DECODE_ABORT_LENGTH
          /\ path = <<"find">>
          /\ output = <<>>
    /\ Did("find") /\ ~(\E i \in 1..Len(bitbuffer) : RefRepeated42(bitbuffer, i)) =>
          Done /\ ret = DECODE_ABORT_LENGTH

\* a row of 43 bits found 4 times
C8_Witness ==
    /\ Done /\ ret = DECODE_ABORT_LENGTH
    /\ r >= 0 /\ bitbuffer[r + 1].bits_per_row = 43

\* C9: a frame that decoded, with one of its 42 bits inverted, never
\* decodes: it returns DECODE_FAIL_MIC, or DECODE_FAIL_SANITY when bytes 0..3
\* have become all zero; every flip of the example frame returns
\* DECODE_FAIL_MIC.
C9_SingleBitFlipRejected ==
    Done /\ rel = "flip" =>
        /\ Cardinality({i \in 0..41 : FrameBit(b, i) # FrameBit(prev.b, i)}) = 1
        /\ prev.ret = 1
        /\ output = <<>>
        /\ ret = IF RefAllZero(b) THEN DECODE_FAIL_SANITY ELSE DECODE_FAIL_MIC
        /\ prev.b = Bits42(ExampleFrame) => ret = DECODE_FAIL_MIC

\* the flip that leaves bytes 0..3 all zero
C9_Witness ==
    /\ Done /\ rel = "flip"
    /\ RefAllZero(b) /\ ret = DECODE_FAIL_SANITY

\* the order of the blocks of the function
FullPath == <<"find", "extract", "zero", "sum", "mask", "mic", "fields",
              "temp", "hum", "output">>

\* C10: the checks run in the order all-zero, checksum, temperature,
\* humidity and the first that fails decides: a checksum mismatch returns
\* DECODE_FAIL_MIC whatever the temperature and humidity bits, a range
\* failure is returned only after a checksum match, and with both out of
\* range the temperature check rejects.
C10_FirstFailingCheckDecides ==
    /\ Len(path) <= Len(FullPath) /\ path = SubSeq(FullPath, 1, Len(path))
    /\ Done /\ Did("zero") /\ ~RefAllZero(b) /\ ~RefChecksumOk(b) =>
          ret = DECODE_FAIL_MIC /\ Reason = "mic"
    /\ Done /\ Reason \in {"temp", "hum"} =>
          /\ ret = DECODE_FAIL_SANITY
          /\ ~RefAllZero(b) /\ RefChecksumOk(b)
    /\ Done /\ Did("temp") /\ RefHumidity(b) > 100
            /\ (RefTenths(b) > 2000 \/ RefTenths(b) < -500) =>
          Reason = "temp"
    /\ Done /\ Reason = "hum" =>
          RefTenths(b) <= 2000 /\ RefTenths(b) >= -500 /\ RefHumidity(b) > 100

\* temperature and humidity both out of range
C10_Witness ==
    /\ Done /\ Reason = "temp"
    /\ RefTenths(b) = 2001 /\ RefHumidity(b) = 101

====
